---- MODULE Spec2Model ----
(***************************************************************************)
(* Adaptive quiz application: the answer evaluator and the difficulty      *)
(* controller of quiz_engine.py, the quiz session kept in Streamlit's      *)
(* session state by app.py, the aggregations of analytics.py and the JSON  *)
(* history store of database.py.                                           *)
(*                                                                         *)
(* A Python str is a sequence of one-character strings; None is the        *)
(* distinguished value NoneValue, which is no sequence of characters.      *)
(*                                                                         *)
(* One action is one script run of app.py (sidebar, then the stage's       *)
(* render function), started by a widget interaction or by st.rerun().     *)
(* The run of submit_answer is the exception: it is two steps, because a   *)
(* Streamlit command (st.success / st.error) lies between the append of    *)
(* the record and the advance of the cursor, and a script run is stopped   *)
(* at a Streamlit command when another interaction asks for a rerun.       *)
(*                                                                         *)
(* Session fields that no guard and no assignment below reads are left     *)
(* out: uploaded_content, key_concepts, timer_duration, show_timer,        *)
(* shuffled_options, last_question_idx.                                    *)
(***************************************************************************)
EXTENDS Integers, Sequences, FiniteSets, TLC

VARIABLES
    current_stage,          \* st.session_state.current_stage
    questions,              \* st.session_state.questions
    current_question_idx,   \* st.session_state.current_question_idx (0-based)
    user_answers,           \* st.session_state.user_answers
    current_difficulty,     \* st.session_state.current_difficulty
    quiz_start_time,        \* st.session_state.quiz_start_time
    question_start_time,    \* st.session_state.question_start_time
    pc,                     \* position of the running script inside submit_answer
    clicked,                \* the widget whose interaction started the latest script run
    surfaced,               \* the exception the latest script run surfaced, "none" if none
    now,                    \* what time.time() reads
    call,                   \* engine harness: the pending call of a pure function
    ret,                    \* engine harness: what the call returned
    history_file,           \* database.py: the JSON file quiz_history.json
    db                      \* database.py: each session's position inside its store call

sessionVars == <<current_stage, questions, current_question_idx, user_answers,
                 current_difficulty, quiz_start_time, question_start_time,
                 pc, clicked, surfaced>>
vars == <<current_stage, questions, current_question_idx, user_answers,
          current_difficulty, quiz_start_time, question_start_time,
          pc, clicked, surfaced, now, call, ret, history_file, db>>
storeVars == <<history_file, db>>

----------------------------------------------------------------------------
(* Bounds of the model *)

\* longest character string drawn as an input of check_answer
MaxLen == 3
\* most words in a word-built input of check_answer
MaxWords == 4
\* longest recent_answers list drawn as an input of get_next_difficulty
MaxRecent == 5
\* most questions in a generated quiz
MaxQuestions == 3
\* most script runs of submit_answer stopped before the cursor moves, per quiz
MaxInterrupts == 1
\* longest list of mixed answer records drawn as an input of the aggregations
MaxAnswers == 4
\* longest list of answer records of one topic drawn as such an input
MaxLong == 10
\* most questions in a quiz parsed from a reply of the language model
MaxQuiz == 5
\* most entries in quiz_history.json before the calls of the store
MaxHistory == 3

----------------------------------------------------------------------------
(* Python values *)

NoneValue == <<"None">>

Min(a, b) == IF a < b THEN a ELSE b
Max(a, b) == IF a > b THEN a ELSE b

\* dict.get(key, default)
Get(d, key, default) == IF key \in DOMAIN d THEN d[key] ELSE default

\* the truth value Python gives a str or None: `not x` is ~Truthy(x)
Truthy(x) == x # NoneValue /\ x # <<>>

IsSpace(c) == c = " "

\* str.lower(), on the letters the model uses
LowerChar(c) ==
    CASE c = "A" -> "a"
      [] c = "B" -> "b"
      [] c = "T" -> "t"
      [] c = "F" -> "f"
      [] OTHER -> c

Lower(s) == [i \in 1..Len(s) |-> LowerChar(s[i])]

RECURSIVE LStrip(_)
LStrip(s) == IF s # <<>> /\ IsSpace(Head(s)) THEN LStrip(Tail(s)) ELSE s

RECURSIVE RStrip(_)
RStrip(s) ==
    IF s # <<>> /\ IsSpace(s[Len(s)]) THEN RStrip(SubSeq(s, 1, Len(s) - 1)) ELSE s

\* str.strip()
Strip(s) == RStrip(LStrip(s))

\* str(x).strip().lower()
Clean(x) == Lower(Strip(x))

\* a in b, for two str
Contains(b, a) ==
    \E i \in 0..(Len(b) - Len(a)) : SubSeq(b, i + 1, i + Len(a)) = a

\* set(s.split()): the maximal runs of non-whitespace characters
RECURSIVE SplitFrom(_, _, _)
SplitFrom(s, word, out) ==
    IF s = <<>>
    THEN IF word # <<>> THEN out \cup {word} ELSE out
    ELSE IF IsSpace(Head(s))
         THEN SplitFrom(Tail(s), <<>>, IF word # <<>> THEN out \cup {word} ELSE out)
         ELSE SplitFrom(Tail(s), Append(word, Head(s)), out)

WordSet(s) == SplitFrom(s, <<>>, {})

----------------------------------------------------------------------------
(* quiz_engine.py: QuizEngine *)

difficulty_levels == <<"easy", "medium", "hard">>

\* list.index, 1-based
LevelIndex(d) == CHOOSE i \in 1..Len(difficulty_levels) : difficulty_levels[i] = d

LenientTypes == {"short_answer", "fill_blank"}

\* variant: the threshold taken as one half
OverlapHalf(n, d) == 2 * n >= d

\* overlap >= 0.7 with overlap = n / d and d > 0
OverlapEnough(n, d) == 10 * n >= 7 * d

LenientMatch(user_clean, correct_clean) ==
    IF user_clean = correct_clean THEN TRUE
    ELSE IF Contains(correct_clean, user_clean) \/ Contains(user_clean, correct_clean)
    THEN TRUE
    ELSE LET user_words == WordSet(user_clean)
             correct_words == WordSet(correct_clean)
         IN  IF Cardinality(correct_words) > 0
             THEN OverlapEnough(Cardinality(user_words \cap correct_words),
                                Cardinality(correct_words))
             ELSE FALSE

\* variant: the lenient layers applied to every question type
CheckAnswerAllLenient(user_answer, correct_answer, question_type) ==
    IF ~Truthy(user_answer) \/ ~Truthy(correct_answer) THEN FALSE
    ELSE LenientMatch(Clean(user_answer), Clean(correct_answer))

\* variant: no early return on a missing answer
CheckAnswerNoGuard(user_answer, correct_answer, question_type) ==
    LET user_clean == Clean(user_answer)
        correct_clean == Clean(correct_answer)
    IN  IF question_type \in LenientTypes
        THEN LenientMatch(user_clean, correct_clean)
        ELSE user_clean = correct_clean

CheckAnswer(user_answer, correct_answer, question_type) ==
    IF ~Truthy(user_answer) \/ ~Truthy(correct_answer) THEN FALSE
    ELSE LET user_clean == Clean(user_answer)
             correct_clean == Clean(correct_answer)
         IN  IF question_type \in LenientTypes
             THEN LenientMatch(user_clean, correct_clean)
             ELSE user_clean = correct_clean

\* variant: the whole list counted, not its last three entries
RecentCorrectWhole(recent_answers) ==
    Cardinality({i \in 1..Len(recent_answers) : recent_answers[i].is_correct})

\* sum(1 for a in recent_answers[-3:] if a['is_correct'])
RecentCorrect(recent_answers) ==
    LET n == Len(recent_answers)
    IN  Cardinality({i \in Max(1, n - 2)..n : recent_answers[i].is_correct})

\* variant: a promotion that skips a tier
StepUpSkips(d) == difficulty_levels[Min(LevelIndex(d) + 2, 3)]

StepUp(d) == difficulty_levels[Min(LevelIndex(d) + 1, 3)]
StepDown(d) == difficulty_levels[Max(LevelIndex(d) - 1, 1)]

\* variant: no cold start, the counting rule applied to any list
GetNextDifficultyNoColdStart(cur, is_correct, recent_answers) ==
    IF RecentCorrect(recent_answers) >= 3 /\ cur # "hard" THEN StepUp(cur)
    ELSE IF RecentCorrect(recent_answers) <= 1 /\ cur # "easy" THEN StepDown(cur)
    ELSE cur

\* variant: the windowed rule steps down with 2 of the last 3 correct as well
GetNextDifficultyDownAtTwo(cur, is_correct, recent_answers) ==
    IF Len(recent_answers) < 3
    THEN IF is_correct /\ cur # "hard" THEN StepUp(cur)
         ELSE IF ~is_correct /\ cur # "easy" THEN StepDown(cur)
         ELSE cur
    ELSE IF RecentCorrect(recent_answers) >= 3 /\ cur # "hard" THEN StepUp(cur)
         ELSE IF RecentCorrect(recent_answers) <= 2 /\ cur # "easy" THEN StepDown(cur)
         ELSE cur

GetNextDifficulty(cur, is_correct, recent_answers) ==
    IF Len(recent_answers) < 3
    THEN IF is_correct /\ cur # "hard" THEN StepUp(cur)
         ELSE IF ~is_correct /\ cur # "easy" THEN StepDown(cur)
         ELSE cur
    ELSE IF RecentCorrect(recent_answers) >= 3 /\ cur # "hard" THEN StepUp(cur)
         ELSE IF RecentCorrect(recent_answers) <= 1 /\ cur # "easy" THEN StepDown(cur)
         ELSE cur

----------------------------------------------------------------------------
(* app.py: the session state *)

NoTime == -1

(* time.time() reads one of these.  The clock starts in the middle, and in  *)
(* one behaviour it either runs forward or is set back (a clock anomaly).  *)
ClockValues == {0, 1, 2}
ClockStart == CHOOSE t \in ClockValues : {t - 1, t + 1} \subseteq ClockValues

\* init_session_state
SessionInit ==
    /\ current_stage = "upload"
    /\ questions = <<>>
    /\ current_question_idx = 0
    /\ user_answers = <<>>
    /\ current_difficulty = "medium"
    /\ quiz_start_time = NoTime
    /\ question_start_time = NoTime
    /\ pc = "idle"
    /\ clicked = "none"
    /\ surfaced = "none"
    /\ now = ClockStart

NoCall == [op |-> "none"]
Pending == [status |-> "pending"]

(* database.py: quiz_history.json does not exist before the first save,    *)
(* and no session is inside a call of the store.                           *)
Sessions == {"s1", "s2"}
NoFile == [status |-> "absent", data |-> <<>>]
StoreInit ==
    /\ history_file = NoFile
    /\ db = [s \in Sessions |-> [pc |-> "idle"]]

----------------------------------------------------------------------------
(* The engine's pure functions, applied to inputs drawn from bounded sets *)

Chars == {"a", "b", "A", " "}
Words == {"a", "b", "c", "d"}

SeqsUpTo(S, n) == UNION {[1..k -> S] : k \in 0..n}

\* every string of at most MaxLen characters
ShortStrings == SeqsUpTo(Chars, MaxLen)

RECURSIVE JoinWords(_)
JoinWords(ws) ==
    IF Len(ws) = 0 THEN <<>>
    ELSE IF Len(ws) = 1 THEN <<ws[1]>>
    ELSE <<ws[1], " ">> \o JoinWords(Tail(ws))

\* one to MaxWords distinct one-letter words, separated by single blanks
WordStrings ==
    {JoinWords(ws) : ws \in {w \in SeqsUpTo(Words, MaxWords) :
                               /\ Len(w) >= 1
                               /\ \A i, j \in 1..Len(w) : i # j => w[i] # w[j]}}

QuestionTypes == {"mcq", "true_false", "fill_blank", "short_answer"}

CheckInputs ==
    ((ShortStrings \cup {NoneValue}) \X (ShortStrings \cup {NoneValue}))
        \cup (WordStrings \X WordStrings)

InitCheckAnswer ==
    /\ SessionInit
    /\ StoreInit
    /\ call \in {[op |-> "check_answer", user_answer |-> p[1], correct_answer |-> p[2]] :
                    p \in CheckInputs}
    /\ ret = Pending

CallCheckAnswer ==
    /\ call.op = "check_answer"
    /\ ret.status = "pending"
    /\ \E t \in QuestionTypes :
          ret' = [status |-> "returned", question_type |-> t,
                  value |-> CheckAnswer(call.user_answer, call.correct_answer, t)]
    /\ UNCHANGED <<call, now, sessionVars, storeVars>>

SpecCheckAnswer == InitCheckAnswer /\ [][CallCheckAnswer]_vars

Tiers == {"easy", "medium", "hard"}

RecentLists == SeqsUpTo({[is_correct |-> TRUE], [is_correct |-> FALSE]}, MaxRecent)

InitDifficulty ==
    /\ SessionInit
    /\ StoreInit
    /\ call \in {[op |-> "get_next_difficulty", current_difficulty |-> d,
                  is_correct |-> c, recent_answers |-> r] :
                    d \in Tiers, c \in BOOLEAN, r \in RecentLists}
    /\ ret = Pending

CallGetNextDifficulty ==
    /\ call.op = "get_next_difficulty"
    /\ ret.status = "pending"
    /\ ret' = [status |-> "returned",
               value |-> GetNextDifficulty(call.current_difficulty, call.is_correct,
                                           call.recent_answers)]
    /\ UNCHANGED <<call, now, sessionVars, storeVars>>

SpecDifficulty == InitDifficulty /\ [][CallGetNextDifficulty]_vars

----------------------------------------------------------------------------
(* app.py: the script runs of a session *)

(* Question records as the generator supplies them.  The templates of      *)
(* _generate_sample_questions carry every key; a record parsed from an AI  *)
(* reply (json.loads, returned as it is) may lack 'difficulty' or 'topic'. *)
TrueStr == <<"T", "r", "u", "e">>
FalseStr == <<"F", "a", "l", "s", "e">>

QuestionPool ==
    { [question |-> "Q1", answer |-> <<"a">>, distractors |-> << <<"b">> >>,
       type |-> "mcq", difficulty |-> "easy", topic |-> "T1"],
      [question |-> "Q2", answer |-> <<"a", " ", "b">>, distractors |-> <<>>,
       type |-> "fill_blank"] }

\* what generate_questions can return: a list of question records, or nothing
QuestionLists == {qs \in SeqsUpTo(QuestionPool, MaxQuestions) : Len(qs) >= 1}

\* what the user can type into st.text_input with the Submit button enabled
TextAnswers == { <<"A">>, <<"b", " ", "c">> }

Range(s) == {s[i] : i \in 1..Len(s)}

\* the answers the widgets of render_quiz_stage let the user submit
AnswerChoices(q) ==
    LET question_type == Get(q, "type", "mcq")
    IN  CASE question_type = "mcq" -> {q.answer} \cup Range(Get(q, "distractors", <<>>))
          [] question_type = "true_false" -> {TrueStr, FalseStr}
          [] question_type \in {"fill_blank", "short_answer"} ->
                {a \in TextAnswers : Strip(a) # <<>>}
          [] OTHER -> {}

\* user_answers[-5:]
LastFive(s) == SubSeq(s, Max(1, Len(s) - 4), Len(s))

\* variant: reset_quiz without the line that sets the tier
ResetQuizKeepsTier ==
    /\ current_stage' = "upload"
    /\ questions' = <<>>
    /\ current_question_idx' = 0
    /\ user_answers' = <<>>
    /\ current_difficulty' = current_difficulty
    /\ quiz_start_time' = NoTime
    /\ question_start_time' = NoTime

\* reset_quiz
ResetQuiz ==
    /\ current_stage' = "upload"
    /\ questions' = <<>>
    /\ current_question_idx' = 0
    /\ user_answers' = <<>>
    /\ current_difficulty' = "medium"
    /\ quiz_start_time' = NoTime
    /\ question_start_time' = NoTime

\* render_upload_stage: the Generate Quiz button
GenerateQuiz ==
    /\ pc = "idle"
    /\ current_stage = "upload"
    /\ \E generated \in QuestionLists \cup {<<>>} :
          IF generated # <<>>
          THEN /\ questions' = generated
               /\ current_stage' = "concepts"
          ELSE UNCHANGED <<questions, current_stage>>
    /\ clicked' = "generate_quiz"
    /\ surfaced' = "none"
    /\ UNCHANGED <<current_question_idx, user_answers, current_difficulty,
                   quiz_start_time, question_start_time, pc, now, call, ret, storeVars>>

\* render_concepts_stage: the Go Back button
GoBack ==
    /\ pc = "idle"
    /\ current_stage = "concepts"
    /\ ResetQuiz
    /\ clicked' = "go_back"
    /\ surfaced' = "none"
    /\ UNCHANGED <<pc, now, call, ret, storeVars>>

\* render_concepts_stage: the Start Quiz button
StartQuiz ==
    /\ pc = "idle"
    /\ current_stage = "concepts"
    /\ current_stage' = "quiz"
    /\ quiz_start_time' = now
    /\ question_start_time' = now
    /\ clicked' = "start_quiz"
    /\ surfaced' = "none"
    /\ UNCHANGED <<questions, current_question_idx, user_answers, current_difficulty,
                   pc, now, call, ret, storeVars>>

\* the record submit_answer appends
AnswerRecord(question, user_answer, is_correct, response_time) ==
    [question |-> question.question,
     user_answer |-> user_answer,
     correct_answer |-> question.answer,
     is_correct |-> is_correct,
     difficulty |-> Get(question, "difficulty", "medium"),
     topic |-> Get(question, "topic", "General"),
     response_time |-> response_time]

\* variant: the tier is updated from the records before the append
SubmitRecordStaleWindow ==
    /\ pc = "idle"
    /\ current_stage = "quiz"
    /\ current_question_idx < Len(questions)
    /\ LET question == questions[current_question_idx + 1]
       IN  \E user_answer \in AnswerChoices(question) :
              LET response_time == now - question_start_time
                  is_correct == CheckAnswer(user_answer, question.answer,
                                            Get(question, "type", "mcq"))
                  answers == Append(user_answers,
                                    AnswerRecord(question, user_answer, is_correct,
                                                 response_time))
              IN  /\ user_answers' = answers
                  /\ current_difficulty' =
                        GetNextDifficulty(current_difficulty, is_correct, LastFive(user_answers))
    /\ pc' = "feedback"
    /\ clicked' = "submit_answer"
    /\ surfaced' = "none"
    /\ UNCHANGED <<current_stage, questions, current_question_idx,
                   quiz_start_time, question_start_time, now, call, ret, storeVars>>

(* render_quiz_stage with a question left, the Submit Answer button pressed *)
(* with an answer: submit_answer up to its feedback (st.success, st.error). *)
SubmitRecord ==
    /\ pc = "idle"
    /\ current_stage = "quiz"
    /\ current_question_idx < Len(questions)
    /\ LET question == questions[current_question_idx + 1]
       IN  \E user_answer \in AnswerChoices(question) :
              LET response_time == now - question_start_time
                  is_correct == CheckAnswer(user_answer, question.answer,
                                            Get(question, "type", "mcq"))
                  answers == Append(user_answers,
                                    AnswerRecord(question, user_answer, is_correct,
                                                 response_time))
              IN  /\ user_answers' = answers
                  /\ current_difficulty' =
                        GetNextDifficulty(current_difficulty, is_correct, LastFive(answers))
    /\ pc' = "feedback"
    /\ clicked' = "submit_answer"
    /\ surfaced' = "none"
    /\ UNCHANGED <<current_stage, questions, current_question_idx,
                   quiz_start_time, question_start_time, now, call, ret, storeVars>>

\* submit_answer after the feedback: time.sleep(1), advance, re-stamp, st.rerun()
SubmitAdvance ==
    /\ pc = "feedback"
    /\ current_question_idx' = current_question_idx + 1
    /\ question_start_time' = now
    /\ pc' = "idle"
    /\ UNCHANGED <<current_stage, questions, user_answers, current_difficulty,
                   quiz_start_time, clicked, surfaced, now, call, ret, storeVars>>

(* A widget interaction that reaches the server while the script run of    *)
(* submit_answer has appended the record and not yet shown the feedback:   *)
(* st.success / st.error is the next Streamlit command, where the run is   *)
(* stopped for the rerun the interaction asks for, before the cursor moves.*)
SubmitInterrupted ==
    /\ pc = "feedback"
    /\ Len(user_answers) - current_question_idx <= MaxInterrupts
    /\ pc' = "idle"
    /\ UNCHANGED <<current_stage, questions, current_question_idx, user_answers,
                   current_difficulty, quiz_start_time, question_start_time,
                   clicked, surfaced, now, call, ret, storeVars>>

(* render_quiz_stage with a question left, a Submit Answer click that      *)
(* carries no answer for it (the click was made on the previous page):     *)
(* the warning branch, nothing is submitted.                               *)
SubmitWithoutAnswer ==
    /\ pc = "idle"
    /\ current_stage = "quiz"
    /\ current_question_idx < Len(questions)
    /\ clicked' = "submit_answer"
    /\ surfaced' = "none"
    /\ UNCHANGED <<current_stage, questions, current_question_idx, user_answers,
                   current_difficulty, quiz_start_time, question_start_time,
                   pc, now, call, ret, storeVars>>

(* variant: the test written current_idx > len(questions); with the cursor  *)
(* at the length, questions[current_idx] raises and the stage stays.       *)
QuizCompletedOffByOne ==
    /\ pc = "idle"
    /\ current_stage = "quiz"
    /\ current_question_idx >= Len(questions)
    /\ IF current_question_idx > Len(questions)
       THEN current_stage' = "results" /\ surfaced' = "none"
       ELSE current_stage' = current_stage /\ surfaced' = "IndexError"
    /\ \E by \in {"rerun", "submit_answer"} : clicked' = by
    /\ UNCHANGED <<questions, current_question_idx, user_answers, current_difficulty,
                   quiz_start_time, question_start_time, pc, now, call, ret, storeVars>>

(* render_quiz_stage with no question left: the run goes to the results,   *)
(* whether st.rerun() started it or a Submit Answer click did.             *)
QuizCompleted ==
    /\ pc = "idle"
    /\ current_stage = "quiz"
    /\ current_question_idx >= Len(questions)
    /\ current_stage' = "results"
    /\ \E by \in {"rerun", "submit_answer"} : clicked' = by
    /\ surfaced' = "none"
    /\ UNCHANGED <<questions, current_question_idx, user_answers, current_difficulty,
                   quiz_start_time, question_start_time, pc, now, call, ret, storeVars>>

\* render_results_stage: the Take Another Quiz button
TakeAnotherQuiz ==
    /\ pc = "idle"
    /\ current_stage = "results"
    /\ ResetQuiz
    /\ clicked' = "take_another_quiz"
    /\ surfaced' = "none"
    /\ UNCHANGED <<pc, now, call, ret, storeVars>>

\* the Back to Home button of the sidebar and of render_history_stage
BackToHome ==
    /\ pc = "idle"
    /\ current_stage # "upload"
    /\ ResetQuiz
    /\ clicked' = "back_to_home"
    /\ surfaced' = "none"
    /\ UNCHANGED <<pc, now, call, ret, storeVars>>

\* the View History button of the sidebar
ViewHistory ==
    /\ pc = "idle"
    /\ current_stage # "history"
    /\ current_stage' = "history"
    /\ clicked' = "view_history"
    /\ surfaced' = "none"
    /\ UNCHANGED <<questions, current_question_idx, user_answers, current_difficulty,
                   quiz_start_time, question_start_time, pc, now, call, ret, storeVars>>

\* time passes: the next time.time() reads more
ClockForward ==
    /\ now >= ClockStart
    /\ now + 1 \in ClockValues
    /\ now' = now + 1
    /\ UNCHANGED <<sessionVars, call, ret, storeVars>>

\* the wall clock is set back: the next time.time() reads less
ClockBack ==
    /\ now <= ClockStart
    /\ now - 1 \in ClockValues
    /\ now' = now - 1
    /\ UNCHANGED <<sessionVars, call, ret, storeVars>>

Init ==
    /\ SessionInit
    /\ StoreInit
    /\ call = NoCall
    /\ ret = Pending

Next ==
    \/ GenerateQuiz
    \/ GoBack
    \/ StartQuiz
    \/ SubmitRecord
    \/ SubmitAdvance
    \/ SubmitInterrupted
    \/ SubmitWithoutAnswer
    \/ QuizCompleted
    \/ TakeAnotherQuiz
    \/ BackToHome
    \/ ViewHistory
    \/ ClockForward
    \/ ClockBack

Spec == Init /\ [][Next]_vars

\* the session of app.py together with free calls of get_next_difficulty
InitTier == Init \/ InitDifficulty
NextTier == (call = NoCall /\ Next) \/ CallGetNextDifficulty
SpecTier == InitTier /\ [][NextTier]_vars

----------------------------------------------------------------------------
(* analytics.py: the aggregation of the answer records *)

(* The float of n / d is the quotient in lowest terms; Python's 0 and 0.0  *)
(* are equal, both are the quotient 0 / 1.                                 *)
RECURSIVE GCD(_, _)
GCD(a, b) == IF b = 0 THEN a ELSE GCD(b, a % b)

Quotient(n, d) ==
    LET g == GCD(d, IF n >= 0 THEN n ELSE 0 - n)
    IN  [num |-> n \div g, den |-> d \div g]

Zero == Quotient(0, 1)

\* variant: the percentage cut to an integer, int((n / d))
RoundTruncating(n, d) == n \div d

(* round(n / d) for n >= 0, d > 0: the nearest integer, the even one of    *)
(* the two when n / d lies half-way.  The float product (correct / total)  *)
(* * 100 rounds as the exact quotient does for every total below 40.       *)
Round(n, d) ==
    LET q == n \div d
        r == n % d
    IN  IF 2 * r < d THEN q
        ELSE IF 2 * r > d THEN q + 1
        ELSE IF q % 2 = 0 THEN q ELSE q + 1

\* sum(1 for a in answers if a['is_correct'])
RECURSIVE CountCorrect(_)
CountCorrect(answers) ==
    IF answers = <<>> THEN 0
    ELSE (IF Head(answers).is_correct THEN 1 ELSE 0) + CountCorrect(Tail(answers))

\* sum([a.get('response_time', 0) for a in answers])
RECURSIVE SumResponseTimes(_)
SumResponseTimes(answers) ==
    IF answers = <<>> THEN 0
    ELSE Get(Head(answers), "response_time", 0) + SumResponseTimes(Tail(answers))

(* A dict of {'correct', 'total'} counters is the sequence of its entries   *)
(* in insertion order, the order in which .items() yields them.            *)
\* variant: every record is counted under the default key
PerformanceStepDefaultOnly(stats, answer, field, default) ==
    LET key == default
        opened == IF \E i \in 1..Len(stats) : stats[i].key = key THEN stats
                  ELSE Append(stats, [key |-> key, correct |-> 0, total |-> 0])
    IN  [i \in 1..Len(opened) |->
            IF opened[i].key = key
            THEN [key |-> key,
                  correct |-> opened[i].correct + (IF answer.is_correct THEN 1 ELSE 0),
                  total |-> opened[i].total + 1]
            ELSE opened[i]]

\* the body of the loop `for answer in answers` over such a dict
PerformanceStep(stats, answer, field, default) ==
    LET key == Get(answer, field, default)
        opened == IF \E i \in 1..Len(stats) : stats[i].key = key THEN stats
                  ELSE Append(stats, [key |-> key, correct |-> 0, total |-> 0])
    IN  [i \in 1..Len(opened) |->
            IF opened[i].key = key
            THEN [key |-> key,
                  correct |-> opened[i].correct + (IF answer.is_correct THEN 1 ELSE 0),
                  total |-> opened[i].total + 1]
            ELSE opened[i]]

\* the loop, from the first answer to the last
RECURSIVE Performance(_, _, _)
Performance(answers, field, default) ==
    IF answers = <<>> THEN <<>>
    ELSE PerformanceStep(Performance(SubSeq(answers, 1, Len(answers) - 1), field, default),
                         answers[Len(answers)], field, default)

\* variant: the empty case reports a full score
CalculateResultsEmptyFull(answers) ==
    IF answers = <<>>
    THEN [total |-> 0, correct |-> 0, incorrect |-> 0, accuracy |-> 100,
          avg_response_time |-> Zero,
          topic_performance |-> <<>>, difficulty_performance |-> <<>>]
    ELSE LET total == Len(answers)
             correct == CountCorrect(answers)
         IN  [total |-> total,
              correct |-> correct,
              incorrect |-> total - correct,
              accuracy |-> IF total > 0 THEN Round(correct * 100, total) ELSE 0,
              avg_response_time |-> Quotient(SumResponseTimes(answers), Len(answers)),
              topic_performance |-> Performance(answers, "topic", "General"),
              difficulty_performance |-> Performance(answers, "difficulty", "medium")]

\* calculate_results
CalculateResults(answers) ==
    IF answers = <<>>
    THEN [total |-> 0, correct |-> 0, incorrect |-> 0, accuracy |-> 0,
          avg_response_time |-> Zero,
          topic_performance |-> <<>>, difficulty_performance |-> <<>>]
    ELSE LET total == Len(answers)
             correct == CountCorrect(answers)
         IN  [total |-> total,
              correct |-> correct,
              incorrect |-> total - correct,
              accuracy |-> IF total > 0 THEN Round(correct * 100, total) ELSE 0,
              avg_response_time |-> Quotient(SumResponseTimes(answers), Len(answers)),
              topic_performance |-> Performance(answers, "topic", "General"),
              difficulty_performance |-> Performance(answers, "difficulty", "medium")]

\* variant: a topic is a strength only above 80%
TopicRecommendationAbove(stats) ==
    IF stats.correct * 100 > 80 * stats.total
    THEN << [type |-> "strength", topic |-> stats.key,
             message |-> <<"Excellent performance in ", stats.key, "! (",
                           Round(stats.correct * 100, stats.total), "% accuracy)">>] >>
    ELSE IF stats.correct * 100 < 50 * stats.total
    THEN << [type |-> "weakness", topic |-> stats.key,
             message |-> <<"Consider reviewing ", stats.key, " - current accuracy is ",
                           Round(stats.correct * 100, stats.total), "%">>] >>
    ELSE <<>>

(* get_recommendations: what one topic adds to the list.  A topic has a    *)
(* record, so its total is positive; accuracy >= 80 compares the float     *)
(* correct / total * 100, which orders as the exact quotient does for      *)
(* every total below 400; {accuracy:.0f} prints the rounded percentage.    *)
(* A message is the tuple of the pieces of its text.                       *)
TopicRecommendation(stats) ==
    IF stats.correct * 100 >= 80 * stats.total
    THEN << [type |-> "strength", topic |-> stats.key,
             message |-> <<"Excellent performance in ", stats.key, "! (",
                           Round(stats.correct * 100, stats.total), "% accuracy)">>] >>
    ELSE IF stats.correct * 100 < 50 * stats.total
    THEN << [type |-> "weakness", topic |-> stats.key,
             message |-> <<"Consider reviewing ", stats.key, " - current accuracy is ",
                           Round(stats.correct * 100, stats.total), "%">>] >>
    ELSE <<>>

\* the loop `for topic, stats in topic_stats.items()`
RECURSIVE TopicRecommendations(_)
TopicRecommendations(topic_stats) ==
    IF topic_stats = <<>> THEN <<>>
    ELSE TopicRecommendation(Head(topic_stats)) \o TopicRecommendations(Tail(topic_stats))

\* variant: 60% overall is still a weakness
OverallRecommendationUpTo(answers) ==
    LET correct == IF answers # <<>> THEN CountCorrect(answers) ELSE 0
        total == IF answers # <<>> THEN Len(answers) ELSE 1
    IN  IF correct * 100 >= 90 * total
        THEN << [type |-> "strength", topic |-> "Overall",
                 message |-> <<"Outstanding performance! Consider trying harder difficulty levels.">>] >>
        ELSE IF correct * 100 <= 60 * total
        THEN << [type |-> "weakness", topic |-> "Overall",
                 message |-> <<"Focus on understanding core concepts before attempting more questions.">>] >>
        ELSE <<>>

(* get_recommendations: the overall part.  total_accuracy is               *)
(* correct / len(answers) * 100 if answers else 0, the quotient            *)
(* correct * 100 / total with 0 / 1 for no answers.                        *)
OverallRecommendation(answers) ==
    LET correct == IF answers # <<>> THEN CountCorrect(answers) ELSE 0
        total == IF answers # <<>> THEN Len(answers) ELSE 1
    IN  IF correct * 100 >= 90 * total
        THEN << [type |-> "strength", topic |-> "Overall",
                 message |-> <<"Outstanding performance! Consider trying harder difficulty levels.">>] >>
        ELSE IF correct * 100 < 60 * total
        THEN << [type |-> "weakness", topic |-> "Overall",
                 message |-> <<"Focus on understanding core concepts before attempting more questions.">>] >>
        ELSE <<>>

\* variant: the overall recommendation is put first
GetRecommendationsOverallFirst(answers) ==
    OverallRecommendation(answers)
        \o TopicRecommendations(Performance(answers, "topic", "General"))

\* get_recommendations
GetRecommendations(answers) ==
    TopicRecommendations(Performance(answers, "topic", "General"))
        \o OverallRecommendation(answers)

----------------------------------------------------------------------------
(* The aggregations, applied to answer lists drawn from bounded sets *)

(* Answer records as a caller may pass them: submit_answer writes every    *)
(* key, the aggregations read 'topic', 'difficulty' and 'response_time'    *)
(* with .get and accept records without them.                              *)
AnswerPool ==
    { [is_correct |-> TRUE, topic |-> "T1", difficulty |-> "easy", response_time |-> 1],
      [is_correct |-> FALSE, topic |-> "T1", difficulty |-> "hard", response_time |-> 2],
      [is_correct |-> TRUE, topic |-> "T2", difficulty |-> "hard"],
      [is_correct |-> FALSE, topic |-> "T2", response_time |-> 2],
      [is_correct |-> TRUE, difficulty |-> "easy", response_time |-> 0],
      [is_correct |-> FALSE] }

\* records of one topic and one tier, for the longer lists
LongPool ==
    { [is_correct |-> TRUE, topic |-> "T1", difficulty |-> "medium", response_time |-> 1],
      [is_correct |-> FALSE, topic |-> "T1", difficulty |-> "medium", response_time |-> 1] }

AnswerLists == SeqsUpTo(AnswerPool, MaxAnswers) \cup SeqsUpTo(LongPool, MaxLong)

InitAnalytics ==
    /\ SessionInit
    /\ StoreInit
    /\ call \in {[op |-> "analytics", answers |-> a] : a \in AnswerLists}
    /\ ret = Pending

CallCalculateResults ==
    /\ call.op = "analytics"
    /\ ret.status = "pending"
    /\ ret' = [status |-> "returned", op |-> "calculate_results",
               value |-> CalculateResults(call.answers)]
    /\ UNCHANGED <<call, now, sessionVars, storeVars>>

CallGetRecommendations ==
    /\ call.op = "analytics"
    /\ ret.status = "pending"
    /\ ret' = [status |-> "returned", op |-> "get_recommendations",
               value |-> GetRecommendations(call.answers)]
    /\ UNCHANGED <<call, now, sessionVars, storeVars>>

NextAnalytics == CallCalculateResults \/ CallGetRecommendations

SpecAnalytics == InitAnalytics /\ [][NextAnalytics]_vars

----------------------------------------------------------------------------
(* app.py: the script runs of the results stage *)

\* variant: the aggregation consumes the list it is given (answers.pop())
RenderResultsConsuming ==
    /\ pc = "idle"
    /\ current_stage = "results"
    /\ user_answers # <<>>
    /\ ret' = [status |-> "returned", op |-> "render_results",
               results |-> CalculateResults(user_answers),
               recommendations |-> GetRecommendations(user_answers)]
    /\ user_answers' = SubSeq(user_answers, 1, Len(user_answers) - 1)
    /\ UNCHANGED <<current_stage, questions, current_question_idx, current_difficulty,
                   quiz_start_time, question_start_time, pc, clicked, surfaced,
                   now, call, storeVars>>

(* render_results_stage, run once more by any rerun in the results stage:  *)
(* it hands user_answers to calculate_results and to get_recommendations,  *)
(* which read the list and the records and assign nothing.                 *)
RenderResults ==
    /\ pc = "idle"
    /\ current_stage = "results"
    /\ ret' = [status |-> "returned", op |-> "render_results",
               results |-> CalculateResults(user_answers),
               recommendations |-> GetRecommendations(user_answers)]
    /\ UNCHANGED <<sessionVars, now, call, storeVars>>

\* the session up to its results page, rendered any number of times
InitResults == Init
NextResults == (ret = Pending /\ Next) \/ RenderResults
SpecResults == InitResults /\ [][NextResults]_vars

----------------------------------------------------------------------------
(* app.py and quiz_engine.py: the question a quiz page presents *)

(* render_quiz_stage: current_question = questions[current_idx].  The page *)
(* reads current_difficulty for its badge only; no caller in app.py hands  *)
(* the questions to filter_questions_by_difficulty.                        *)
CurrentQuestion == questions[current_question_idx + 1]

\* variant: without the fallback to the whole list
FilterQuestionsByDifficultyNoFallback(qs, target_difficulty) ==
    SelectSeq(qs, LAMBDA q : Get(q, "difficulty", "medium") = target_difficulty)

\* filter_questions_by_difficulty
FilterQuestionsByDifficulty(qs, target_difficulty) ==
    LET matching ==
            SelectSeq(qs, LAMBDA q : Get(q, "difficulty", "medium") = target_difficulty)
    IN  IF matching # <<>> THEN matching ELSE qs

\* question records of every tier, and one without a difficulty
FilterPool ==
    { [question |-> "F1", difficulty |-> "easy"],
      [question |-> "F2", difficulty |-> "medium"],
      [question |-> "F3"],
      [question |-> "F4", difficulty |-> "hard"] }

\* the tiers, and a target that is none of them
FilterTargets == Tiers \cup {"expert"}

InitFilter ==
    /\ SessionInit
    /\ StoreInit
    /\ call \in {[op |-> "filter_questions_by_difficulty", questions |-> qs,
                  target_difficulty |-> t] :
                    qs \in SeqsUpTo(FilterPool, MaxQuestions), t \in FilterTargets}
    /\ ret = Pending

CallFilterQuestionsByDifficulty ==
    /\ call.op = "filter_questions_by_difficulty"
    /\ ret.status = "pending"
    /\ ret' = [status |-> "returned",
               value |-> FilterQuestionsByDifficulty(call.questions,
                                                     call.target_difficulty)]
    /\ UNCHANGED <<call, now, sessionVars, storeVars>>

SpecFilter == InitFilter /\ [][CallFilterQuestionsByDifficulty]_vars

----------------------------------------------------------------------------
(* app.py: a quiz on questions parsed from a reply of the language model *)

(* _generate_with_ai returns what json.loads made of the reply, as it is:  *)
(* the prompt asks for the types mcq, true_false, fill_blank and           *)
(* short_answer, and nothing checks that a record has one of them.         *)
AIQuestionPool ==
    QuestionPool \cup
        { [question |-> "Q3", answer |-> <<"a">>, distractors |-> << <<"b">> >>,
           type |-> "multiple_choice", difficulty |-> "hard", topic |-> "T1"] }

AIQuestionLists == {qs \in SeqsUpTo(AIQuestionPool, MaxQuiz) : Len(qs) >= 1}

\* render_upload_stage: the Generate Quiz button, the generator using the model
GenerateQuizAI ==
    /\ pc = "idle"
    /\ current_stage = "upload"
    /\ \E generated \in AIQuestionLists \cup {<<>>} :
          IF generated # <<>>
          THEN /\ questions' = generated
               /\ current_stage' = "concepts"
          ELSE UNCHANGED <<questions, current_stage>>
    /\ clicked' = "generate_quiz"
    /\ surfaced' = "none"
    /\ UNCHANGED <<current_question_idx, user_answers, current_difficulty,
                   quiz_start_time, question_start_time, pc, now, call, ret, storeVars>>

\* one quiz taken from the upload page to the results, without leaving it
InitQuiz == Init
NextQuiz ==
    \/ GenerateQuizAI
    \/ StartQuiz
    \/ SubmitRecord
    \/ SubmitAdvance
    \/ QuizCompleted
SpecQuiz == InitQuiz /\ [][NextQuiz]_vars

----------------------------------------------------------------------------
(* database.py: the quiz history in the JSON file *)

(* The file is absent, holds the JSON text of a list of entries, or has    *)
(* been opened for writing and holds no complete JSON text yet.            *)
\* _load_json: [] when the file does not exist or json.load raises
LoadJson(file) == IF file.status = "json" THEN file.data ELSE <<>>

\* _save_json, after the file is closed
SaveJson(data) == [status |-> "json", data |-> data]

\* _save_json, open(filepath, 'w') done and nothing flushed yet
Truncated == [status |-> "truncated", data |-> <<>>]

\* get_quiz_history(user_id, limit = 50)
DefaultLimit == 50

Users == {"default", "u1"}

\* get_quiz_history, JSON storage
GetQuizHistory(file, user_id, limit) ==
    LET data == LoadJson(file)
        user_history == SelectSeq(data, LAMBDA d : Get(d, "user_id", "default") = user_id)
    IN  SubSeq(user_history, Max(1, Len(user_history) - limit + 1), Len(user_history))

\* variant: the filter of clear_quiz_history compares the raw user_id
ClearedNoDefault(file, user_id) ==
    SaveJson(SelectSeq(LoadJson(file), LAMBDA d : Get(d, "user_id", "none") # user_id))

\* clear_quiz_history, JSON storage: the file it leaves
Cleared(file, user_id) ==
    SaveJson(SelectSeq(LoadJson(file), LAMBDA d : Get(d, "user_id", "default") # user_id))

(* Entries of quiz_history.json: save_quiz_attempt writes a user_id,       *)
(* QuizAnalytics.save_to_history writes entries without one to the same    *)
(* file name.                                                              *)
HistoryPool ==
    { [user_id |-> "u1", accuracy |-> 50],
      [user_id |-> "u1", accuracy |-> 100],
      [user_id |-> "default", accuracy |-> 100],
      [accuracy |-> 0] }

HistoryFiles ==
    {NoFile, Truncated} \cup {SaveJson(d) : d \in SeqsUpTo(HistoryPool, MaxHistory)}

InitHistory ==
    /\ SessionInit
    /\ history_file \in HistoryFiles
    /\ db = [s \in Sessions |-> [pc |-> "idle"]]
    /\ call = NoCall
    /\ ret = Pending

\* one session calls clear_quiz_history(user_id)
ClearQuizHistory(user_id) ==
    /\ history_file' = Cleared(history_file, user_id)
    /\ ret' = [status |-> "returned", op |-> "clear_quiz_history",
               user_id |-> user_id, value |-> TRUE]
    /\ UNCHANGED <<sessionVars, now, call, db>>

\* one session calls get_quiz_history(user_id)
CallGetQuizHistory(user_id) ==
    /\ ret' = [status |-> "returned", op |-> "get_quiz_history",
               user_id |-> user_id,
               value |-> GetQuizHistory(history_file, user_id, DefaultLimit)]
    /\ UNCHANGED <<sessionVars, now, call, db, history_file>>

NextHistory ==
    \E user_id \in Users : ClearQuizHistory(user_id) \/ CallGetQuizHistory(user_id)

SpecHistory == InitHistory /\ [][NextHistory]_vars

(* save_quiz_attempt, JSON storage, run by the sessions of the server side *)
(* by side: every session has its thread and all share the QuizDatabase of *)
(* get_database and the file.  A call is three steps, one per access to    *)
(* the file: _load_json; open(filepath, 'w'), which empties the file; and  *)
(* json.dump with the close that flushes the text.                         *)

\* the entry save_quiz_attempt builds from its arguments
HistoryEntry(results, user_id) == [user_id |-> user_id, accuracy |-> results.accuracy]

\* data = self._load_json(self.history_file); data.append(entry)
SaveLoad(s) ==
    /\ db[s].pc = "idle"
    /\ \E user_id \in Users, accuracy \in {0, 100} :
          LET entry == HistoryEntry([accuracy |-> accuracy], user_id)
          IN  db' = [db EXCEPT ![s] = [pc |-> "loaded", entry |-> entry,
                                       data |-> Append(LoadJson(history_file), entry)]]
    /\ UNCHANGED <<sessionVars, now, call, ret, history_file>>

\* _save_json: with open(filepath, 'w') as f
SaveOpen(s) ==
    /\ db[s].pc = "loaded"
    /\ history_file' = Truncated
    /\ db' = [db EXCEPT ![s].pc = "opened"]
    /\ UNCHANGED <<sessionVars, now, call, ret>>

\* _save_json: json.dump(data, f), the file closed; return True
SaveWrite(s) ==
    /\ db[s].pc = "opened"
    /\ history_file' = SaveJson(db[s].data)
    /\ db' = [db EXCEPT ![s] = [pc |-> "returned", entry |-> db[s].entry,
                                data |-> db[s].data, value |-> TRUE]]
    /\ UNCHANGED <<sessionVars, now, call, ret>>

InitStore ==
    /\ SessionInit
    /\ history_file \in HistoryFiles
    /\ db = [s \in Sessions |-> [pc |-> "idle"]]
    /\ call = NoCall
    /\ ret = Pending

NextStore == \E s \in Sessions : SaveLoad(s) \/ SaveOpen(s) \/ SaveWrite(s)

SpecStore == InitStore /\ [][NextStore]_vars

----------------------------------------------------------------------------
(* Vocabulary of the properties, stated without the operators above *)

TierAbove(d) ==
    CASE d = "easy" -> "medium" [] d = "medium" -> "hard" [] d = "hard" -> "hard"
TierBelow(d) ==
    CASE d = "easy" -> "easy" [] d = "medium" -> "easy" [] d = "hard" -> "medium"
TierRank(d) == CASE d = "easy" -> 0 [] d = "medium" -> 1 [] d = "hard" -> 2
TierDistance(d, e) ==
    IF TierRank(d) >= TierRank(e) THEN TierRank(d) - TierRank(e)
    ELSE TierRank(e) - TierRank(d)

Bit(b) == IF b THEN 1 ELSE 0

\* the number of correct entries among the last three of r, Len(r) >= 3
CorrectOfLastThree(r) ==
    Bit(r[Len(r)].is_correct) + Bit(r[Len(r) - 1].is_correct)
        + Bit(r[Len(r) - 2].is_correct)

UpperLower == {<<"A", "a">>, <<"B", "b">>, <<"T", "t">>, <<"F", "f">>}

Lowered(s) ==
    [i \in DOMAIN s |->
        IF \E p \in UpperLower : p[1] = s[i]
        THEN (CHOOSE p \in UpperLower : p[1] = s[i])[2]
        ELSE s[i]]

\* s without the blanks around it
Trimmed(s) ==
    CHOOSE t \in {SubSeq(s, i, j) : i \in 1..(Len(s) + 1), j \in 0..Len(s)} :
        \E i \in 1..(Len(s) + 1) : \E j \in (i - 1)..Len(s) :
            /\ t = SubSeq(s, i, j)
            /\ \A k \in 1..(i - 1) : s[k] = " "
            /\ \A k \in (j + 1)..Len(s) : s[k] = " "
            /\ i <= j => (s[i] # " " /\ s[j] # " ")

Normalized(s) == Lowered(Trimmed(s))

\* a occurs in b as a block of consecutive characters
Infix(a, b) ==
    \E i \in 1..(Len(b) + 1) : \E j \in (i - 1)..Len(b) : SubSeq(b, i, j) = a

\* the whitespace-separated tokens of s
Tokens(s) ==
    {SubSeq(s, p[1], p[2]) :
        p \in {q \in (1..Len(s)) \X (1..Len(s)) :
                 /\ q[1] <= q[2]
                 /\ \A k \in q[1]..q[2] : s[k] # " "
                 /\ (q[1] = 1 \/ s[q[1] - 1] = " ")
                 /\ (q[2] = Len(s) \/ s[q[2] + 1] = " ")}}

Missing(x) == x = NoneValue \/ x = <<>>

CheckReturned == call.op = "check_answer" /\ ret.status = "returned"
DifficultyReturned == call.op = "get_next_difficulty" /\ ret.status = "returned"

Completed == questions # <<>> /\ current_question_idx = Len(questions)

----------------------------------------------------------------------------
(* Properties *)

C2_ExactlyNSubmissions ==
    (pc = "idle" /\ questions # <<>>)
        => /\ Len(user_answers) <= Len(questions)
           /\ (current_question_idx = Len(questions))
                 <=> (Len(user_answers) = Len(questions))
           /\ current_stage = "results" => Len(user_answers) = Len(questions)

(* C3: a submission is one atomic transition: between script runs there is *)
(* no state in which a record has been appended and the cursor has not     *)
(* advanced, i.e. len(user_answers) = current_question_idx.                *)
C3_SubmissionAtomic ==
    pc = "idle" => Len(user_answers) = current_question_idx

(* C4: there is exactly one answer record per answered question, in order, *)
(* and the i-th record carries the text, expected answer, difficulty and   *)
(* topic of the i-th question.                                             *)
C4_RecordsMatchQuestions ==
    /\ pc = "idle" => Len(user_answers) = current_question_idx
    /\ Len(user_answers) <= Len(questions)
    /\ \A i \in 1..Min(Len(user_answers), Len(questions)) :
          /\ user_answers[i].question = questions[i].question
          /\ user_answers[i].correct_answer = questions[i].answer
          /\ user_answers[i].difficulty =
                (IF "difficulty" \in DOMAIN questions[i]
                 THEN questions[i].difficulty ELSE "medium")
          /\ user_answers[i].topic =
                (IF "topic" \in DOMAIN questions[i]
                 THEN questions[i].topic ELSE "General")

(* C5: cold start: with fewer than 3 entries in the list,                  *)
(* get_next_difficulty returns the tier above when the last answer was     *)
(* correct (hard stays hard) and the tier below when it was not (easy      *)
(* stays easy), whatever the list holds.                                   *)
C5_ColdStart ==
    (DifficultyReturned /\ Len(call.recent_answers) < 3)
        => ret.value = IF call.is_correct
                       THEN TierAbove(call.current_difficulty)
                       ELSE TierBelow(call.current_difficulty)

\* a cold-start promotion decided against what the list holds
C5_Witness ==
    /\ DifficultyReturned
    /\ call.recent_answers = <<[is_correct |-> FALSE], [is_correct |-> FALSE]>>
    /\ call.is_correct
    /\ call.current_difficulty = "medium"
    /\ ret.value = "hard"

(* C6: with 3 or more entries and c the number of correct ones among the   *)
(* last 3: promotion by one tier iff c = 3 and the tier is not hard,       *)
(* demotion by one tier iff c <= 1 and the tier is not easy, otherwise     *)
(* the tier is returned unchanged; older entries have no effect.           *)
C6_Windowed ==
    (DifficultyReturned /\ Len(call.recent_answers) >= 3)
        => LET c == CorrectOfLastThree(call.recent_answers)
               cur == call.current_difficulty
           IN  ret.value = IF c = 3 /\ cur # "hard" THEN TierAbove(cur)
                           ELSE IF c <= 1 /\ cur # "easy" THEN TierBelow(cur)
                           ELSE cur

\* a demotion on the last three entries, the two correct older ones ignored
C6_Witness ==
    /\ DifficultyReturned
    /\ Len(call.recent_answers) = 5
    /\ call.recent_answers[1].is_correct /\ call.recent_answers[2].is_correct
    /\ CorrectOfLastThree(call.recent_answers) = 1
    /\ call.current_difficulty = "medium"
    /\ ret.value = "easy"

(* C7: every call of get_next_difficulty on one of the three tiers returns *)
(* one of the three tiers, at most one position away; in a session         *)
(* current_difficulty is always one of the three tiers and a submission    *)
(* moves it by at most one position.                                       *)
C7_SingleStep ==
    [][/\ (call'.op = "get_next_difficulty" /\ ret'.status = "returned")
            => /\ ret'.value \in {"easy", "medium", "hard"}
               /\ TierDistance(call'.current_difficulty, ret'.value) <= 1
       /\ current_difficulty' \in {"easy", "medium", "hard"}
       /\ Len(user_answers') > Len(user_answers)
            => TierDistance(current_difficulty, current_difficulty') <= 1]_vars

\* a session demoted to easy by its third submission
C7_Witness ==
    /\ pc = "feedback"
    /\ Len(user_answers) = 3
    /\ \A i \in 1..3 : ~user_answers[i].is_correct
    /\ current_difficulty = "easy"

(* C8: for multiple-choice and true/false questions check_answer returns   *)
(* true iff the two answers, both present, are equal after trimming the    *)
(* surrounding whitespace and lower-casing.                                *)
C8_ExactMatch ==
    (CheckReturned /\ ret.question_type \in {"mcq", "true_false"}
        /\ ~Missing(call.user_answer) /\ ~Missing(call.correct_answer))
        => ret.value = (Normalized(call.user_answer) = Normalized(call.correct_answer))

\* answers that differ in case and padding only are accepted
C8_Witness ==
    /\ CheckReturned
    /\ ret.question_type = "mcq"
    /\ call.user_answer = <<" ", "A">>
    /\ call.correct_answer = <<"a", " ">>
    /\ ret.value = TRUE

(* C9: for fill_blank and short_answer questions with both answers present *)
(* check_answer returns true iff, on the normalized strings, they are      *)
(* equal, or one occurs in the other, or the expected tokens are not empty *)
(* and 10 * |user tokens /\ expected tokens| >= 7 * |expected tokens|.     *)
C9_LenientMatch ==
    (CheckReturned /\ ret.question_type \in {"fill_blank", "short_answer"}
        /\ ~Missing(call.user_answer) /\ ~Missing(call.correct_answer))
        => LET u == Normalized(call.user_answer)
               e == Normalized(call.correct_answer)
               common == Tokens(u) \cap Tokens(e)
           IN  ret.value =
                 \/ u = e
                 \/ Infix(u, e)
                 \/ Infix(e, u)
                 \/ /\ Tokens(e) # {}
                    /\ 10 * Cardinality(common) >= 7 * Cardinality(Tokens(e))

\* three of four expected tokens, in another order: accepted by the overlap alone
C9_Witness ==
    /\ CheckReturned
    /\ ret.question_type = "fill_blank"
    /\ call.user_answer = <<"b", " ", "a", " ", "c">>
    /\ call.correct_answer = <<"a", " ", "b", " ", "c", " ", "d">>
    /\ ret.value = TRUE

(* C10: check_answer returns false, and raises nothing, whenever the       *)
(* user's answer or the expected answer is None or the empty string, for   *)
(* every question type.                                                    *)
C10_MissingIsFalse ==
    (call.op = "check_answer" /\ ret.status # "pending"
        /\ (Missing(call.user_answer) \/ Missing(call.correct_answer)))
        => ret.status = "returned" /\ ret.value = FALSE

\* None against a present expected answer
C10_Witness ==
    /\ CheckReturned
    /\ call.user_answer = NoneValue
    /\ call.correct_answer = <<"a">>
    /\ ret.value = FALSE

----------------------------------------------------------------------------
(* Properties of the aggregations *)

ResultsReturned ==
    call.op = "analytics" /\ ret.status = "returned" /\ ret.op = "calculate_results"
RecommendationsReturned ==
    call.op = "analytics" /\ ret.status = "returned" /\ ret.op = "get_recommendations"

\* the indices of the records of a list that satisfy P
Where(answers, P(_)) == {i \in 1..Len(answers) : P(answers[i])}

IsCorrect(a) == a.is_correct

\* the key a record is counted under: its own, or the default when it has none
KeyOf(a, field, default) == IF field \in DOMAIN a THEN a[field] ELSE default

RECURSIVE SumOver(_, _)
SumOver(entries, counter) ==
    IF entries = <<>> THEN 0
    ELSE Head(entries)[counter] + SumOver(Tail(entries), counter)

(* C11: calculate_results on an empty answer list returns total 0, correct *)
(* 0, incorrect 0, accuracy 0, average response time 0 and empty per-topic *)
(* and per-difficulty mappings; it returns, it does not raise.             *)
C11_EmptyResults ==
    (ResultsReturned /\ call.answers = <<>>)
        => /\ DOMAIN ret.value = {"total", "correct", "incorrect", "accuracy",
                                  "avg_response_time", "topic_performance",
                                  "difficulty_performance"}
           /\ ret.value.total = 0
           /\ ret.value.correct = 0
           /\ ret.value.incorrect = 0
           /\ ret.value.accuracy = 0
           /\ ret.value.avg_response_time.num = 0
           /\ ret.value.topic_performance = <<>>
           /\ ret.value.difficulty_performance = <<>>

C11_Witness == ResultsReturned /\ call.answers = <<>>

(* C12: for a non-empty answer list calculate_results returns total = the  *)
(* number of records, correct = the number of records with is_correct,     *)
(* incorrect = total - correct, and accuracy = an integer in 0..100 within *)
(* 1/2 of the exact percentage 100 * correct / total.                      *)
C12_Counts ==
    (ResultsReturned /\ call.answers # <<>>)
        => LET n == Len(call.answers)
               c == Cardinality(Where(call.answers, IsCorrect))
               acc == ret.value.accuracy
           IN  /\ ret.value.total = n
               /\ ret.value.correct = c
               /\ ret.value.incorrect = n - c
               /\ acc \in 0..100
               /\ 2 * (acc * n - 100 * c) <= n
               /\ 2 * (100 * c - acc * n) <= n

\* 1 of 8 correct is 12.5%, half-way between two integers
C12_Witness ==
    /\ ResultsReturned
    /\ Len(call.answers) = 8
    /\ ret.value.correct = 1
    /\ ret.value.accuracy = 12

\* C13 for one mapping: the entries partition the records by their key
Partitions(entries, answers, field, default) ==
    /\ \A i, j \in 1..Len(entries) : entries[i].key = entries[j].key => i = j
    /\ {entries[i].key : i \in 1..Len(entries)}
          = {KeyOf(answers[j], field, default) : j \in 1..Len(answers)}
    /\ \A i \in 1..Len(entries) :
          LET same == {j \in 1..Len(answers) :
                          KeyOf(answers[j], field, default) = entries[i].key}
          IN  /\ entries[i].total = Cardinality(same)
              /\ entries[i].correct = Cardinality({j \in same : answers[j].is_correct})
    /\ SumOver(entries, "total") = Len(answers)
    /\ SumOver(entries, "correct") = Cardinality(Where(answers, IsCorrect))

(* C13: the per-topic and the per-difficulty mapping of calculate_results  *)
(* partition the records: a key maps to the number of records and of       *)
(* correct records with that key, a record without a topic counts under    *)
(* "General" and one without a difficulty under "medium", and over each    *)
(* mapping the totals sum to total and the corrects to correct.            *)
C13_Partition ==
    ResultsReturned
        => /\ Partitions(ret.value.topic_performance, call.answers, "topic", "General")
           /\ Partitions(ret.value.difficulty_performance, call.answers,
                         "difficulty", "medium")
           /\ SumOver(ret.value.topic_performance, "total") = ret.value.total
           /\ SumOver(ret.value.topic_performance, "correct") = ret.value.correct
           /\ SumOver(ret.value.difficulty_performance, "total") = ret.value.total
           /\ SumOver(ret.value.difficulty_performance, "correct") = ret.value.correct

\* records without a topic and without a difficulty among records with them
C13_Witness ==
    /\ ResultsReturned
    /\ Len(call.answers) >= 3
    /\ \E i, j, k \in 1..Len(call.answers) :
          /\ "topic" \notin DOMAIN call.answers[i]
          /\ "difficulty" \notin DOMAIN call.answers[j]
          /\ {"topic", "difficulty"} \subseteq DOMAIN call.answers[k]
    /\ \E e \in Range(ret.value.topic_performance) : e.key = "General" /\ e.total >= 1
    /\ \E e \in Range(ret.value.difficulty_performance) : e.key = "medium" /\ e.total >= 1
    /\ Len(ret.value.topic_performance) >= 2

Naming(recs, k) == {i \in 1..Len(recs) : recs[i].topic = k}

\* the records of a list counted under topic k
OfTopic(answers, k) ==
    {j \in 1..Len(answers) : KeyOf(answers[j], "topic", "General") = k}

TopicsOf(answers) ==
    {KeyOf(answers[j], "topic", "General") : j \in 1..Len(answers)}

(* C15: for each distinct topic of the answers get_recommendations emits   *)
(* exactly one recommendation naming it, a 'strength', when the topic's    *)
(* accuracy is >= 80%, exactly one, a 'weakness', when it is < 50%, and    *)
(* none naming it when the accuracy is in [50%, 80%).                      *)
C15_TopicRecommendations ==
    RecommendationsReturned
        => \A k \in TopicsOf(call.answers) :
              LET n == Cardinality(OfTopic(call.answers, k))
                  c == Cardinality({j \in OfTopic(call.answers, k) :
                                       call.answers[j].is_correct})
                  named == Naming(ret.value, k)
              IN  /\ 100 * c >= 80 * n
                        => /\ Cardinality(named) = 1
                           /\ \A i \in named : ret.value[i].type = "strength"
                  /\ 100 * c < 50 * n
                        => /\ Cardinality(named) = 1
                           /\ \A i \in named : ret.value[i].type = "weakness"
                  /\ (100 * c >= 50 * n /\ 100 * c < 80 * n) => named = {}

\* a strong topic, a weak topic and a topic at exactly 50% in one list
C15_Witness ==
    /\ RecommendationsReturned
    /\ \E i \in 1..Len(ret.value) :
          ret.value[i].type = "strength" /\ ret.value[i].topic \in TopicsOf(call.answers)
    /\ \E i \in 1..Len(ret.value) :
          ret.value[i].type = "weakness" /\ ret.value[i].topic \in TopicsOf(call.answers)
    /\ \E k \in TopicsOf(call.answers) :
          /\ Naming(ret.value, k) = {}
          /\ 2 * Cardinality({j \in OfTopic(call.answers, k) : call.answers[j].is_correct})
                = Cardinality(OfTopic(call.answers, k))

(* C16: for a non-empty answer list get_recommendations emits at most one  *)
(* recommendation with topic 'Overall': a 'strength' if and only if the    *)
(* accuracy over all answers is >= 90%, a 'weakness' if and only if it is  *)
(* < 60%, and none when it is in [60%, 90%).                               *)
C16_OverallRecommendation ==
    (RecommendationsReturned /\ call.answers # <<>>)
        => LET n == Len(call.answers)
               c == Cardinality(Where(call.answers, IsCorrect))
               overall == Naming(ret.value, "Overall")
           IN  /\ Cardinality(overall) <= 1
               /\ (\E i \in overall : ret.value[i].type = "strength") <=> 100 * c >= 90 * n
               /\ (\E i \in overall : ret.value[i].type = "weakness") <=> 100 * c < 60 * n
               /\ (100 * c >= 60 * n /\ 100 * c < 90 * n) => overall = {}

\* 9 of 10 correct: exactly 90%, an overall strength
C16_Witness ==
    /\ RecommendationsReturned
    /\ Len(call.answers) = 10
    /\ Cardinality(Where(call.answers, IsCorrect)) = 9
    /\ \E i \in Naming(ret.value, "Overall") : ret.value[i].type = "strength"

\* the place of the first record counted under topic k
FirstSeen(answers, k) ==
    CHOOSE j \in OfTopic(answers, k) : \A h \in OfTopic(answers, k) : j <= h

(* C17: get_recommendations lists the per-topic recommendations in the     *)
(* order in which their topics first appear in the answers, and after all  *)
(* of them the overall recommendation, if there is one, as the last.       *)
C17_Order ==
    RecommendationsReturned
        => \A i, j \in 1..Len(ret.value) :
              (i < j /\ ret.value[j].topic # "Overall")
                  => /\ ret.value[i].topic # "Overall"
                     /\ FirstSeen(call.answers, ret.value[i].topic)
                           < FirstSeen(call.answers, ret.value[j].topic)

\* two per-topic recommendations, T2 seen before T1, then the overall one
C17_Witness ==
    /\ RecommendationsReturned
    /\ Len(ret.value) = 3
    /\ ret.value[1].topic = "T2"
    /\ ret.value[2].topic = "T1"
    /\ ret.value[3].topic = "Overall"

(* C18: get_recommendations on an empty answer list returns an empty list  *)
(* of recommendations, no per-topic one and no overall one.                *)
C18_EmptyGivesEmpty ==
    (RecommendationsReturned /\ call.answers = <<>>) => ret.value = <<>>

(* C19: the response time stored in every answer record is non-negative,   *)
(* clamped to 0 when the clock reads earlier at the submission than at the *)
(* last question-start stamp.                                              *)
C19_ResponseTimeNonNegative ==
    \A i \in 1..Len(user_answers) : user_answers[i].response_time >= 0

(* C20: on the n-th submission of a session the tier is updated from the   *)
(* last min(5, n) answer records, the one just appended included, with the *)
(* is_correct of the last of them as the flag: submissions 1 and 2 follow  *)
(* the cold-start rule (up after a correct answer, down after an incorrect *)
(* one), every later submission the rule on the last three of the window   *)
(* (up with 3 correct, down with at most 1, else unchanged).               *)
C20_TrailingWindow ==
    [][Len(user_answers') = Len(user_answers) + 1
        => LET n == Len(user_answers')
               window == SubSeq(user_answers', n - Min(5, n) + 1, n)
               flag == window[Len(window)].is_correct
           IN  /\ SubSeq(user_answers', 1, n - 1) = user_answers
               /\ current_difficulty' =
                     IF n < 3
                     THEN IF flag THEN TierAbove(current_difficulty)
                          ELSE TierBelow(current_difficulty)
                     ELSE IF CorrectOfLastThree(window) >= 3
                          THEN TierAbove(current_difficulty)
                          ELSE IF CorrectOfLastThree(window) <= 1
                          THEN TierBelow(current_difficulty)
                          ELSE current_difficulty]_vars

\* a third submission, incorrect after two correct ones: the tier stays
C20_Witness ==
    /\ pc = "feedback"
    /\ Len(user_answers) = 3
    /\ user_answers[1].is_correct
    /\ user_answers[2].is_correct
    /\ ~user_answers[3].is_correct
    /\ current_difficulty = "hard"

----------------------------------------------------------------------------
(* Properties of the session, continued *)

\* a quiz has been started and not been reset
Started == quiz_start_time # NoTime

(* C21: a submission leaves the questions and the records appended before  *)
(* it unchanged, appends exactly one record and increases the cursor by    *)
(* exactly one; between the start of a quiz and its reset the cursor never *)
(* decreases and the record sequence only grows by appending.              *)
C21_SubmissionFrame ==
    [][/\ (Started /\ quiz_start_time' # NoTime)
            => /\ questions' = questions
               /\ current_question_idx' >= current_question_idx
               /\ Len(user_answers') >= Len(user_answers)
               /\ SubSeq(user_answers', 1, Len(user_answers)) = user_answers
       /\ Len(user_answers') > Len(user_answers)
            => Len(user_answers') = Len(user_answers) + 1
       /\ (pc = "feedback" /\ pc' = "idle")
            => current_question_idx' = current_question_idx + 1]_vars

\* a quiz page with a question on it
Presenting ==
    current_stage = "quiz" /\ pc = "idle" /\ current_question_idx < Len(questions)

(* C22: the current tier governs the selection of the question: the        *)
(* question presented next has the current tier as its difficulty (a       *)
(* missing difficulty counts as 'medium') whenever a question of that tier *)
(* is still to be answered; another one is presented only when none is.    *)
C22_TierGovernsSelection ==
    Presenting
        => ((\E i \in (current_question_idx + 1)..Len(questions) :
                KeyOf(questions[i], "difficulty", "medium") = current_difficulty)
            => KeyOf(CurrentQuestion, "difficulty", "medium") = current_difficulty)

(* C23: every quiz starts from a fresh session: whenever the stage becomes *)
(* 'quiz', the question sequence is non-empty, the cursor is 0, there is   *)
(* no answer record, the tier is 'medium' and both timestamps are set,     *)
(* whatever quizzes, resets or history visits came before.                 *)
C23_FreshStart ==
    [][(current_stage # "quiz" /\ current_stage' = "quiz")
        => /\ questions' # <<>>
           /\ current_question_idx' = 0
           /\ user_answers' = <<>>
           /\ current_difficulty' = "medium"
           /\ quiz_start_time' # NoTime
           /\ question_start_time' # NoTime]_vars

\* a quiz just started, later than the first moment of the session
C23_Witness ==
    /\ current_stage = "quiz"
    /\ clicked = "start_quiz"
    /\ questions # <<>>
    /\ current_question_idx = 0
    /\ user_answers = <<>>
    /\ quiz_start_time = now
    /\ now # ClockStart

FilterReturned == call.op = "filter_questions_by_difficulty" /\ ret.status = "returned"

\* r lists the entries of s at the places in m, in the order of s
Selects(r, s, m) ==
    /\ Len(r) = Cardinality(m)
    /\ \E f \in [1..Len(r) -> m] :
          /\ \A i, j \in 1..Len(r) : i < j => f[i] < f[j]
          /\ \A i \in 1..Len(r) : r[i] = s[f[i]]

(* C24: filter_questions_by_difficulty returns, in their original order,   *)
(* exactly the questions whose difficulty (a missing one counts as         *)
(* 'medium') equals the target tier when there is at least one, and the    *)
(* whole input list otherwise; the result is empty only for an empty list. *)
C24_Filter ==
    FilterReturned
        => LET matching == {i \in 1..Len(call.questions) :
                               KeyOf(call.questions[i], "difficulty", "medium")
                                  = call.target_difficulty}
           IN  /\ matching # {} => Selects(ret.value, call.questions, matching)
               /\ matching = {} => ret.value = call.questions
               /\ ret.value = <<>> => call.questions = <<>>

\* F3 (no difficulty) and F2 are kept in this order for 'medium', F1 is dropped
C24_Witness ==
    /\ FilterReturned
    /\ call.target_difficulty = "medium"
    /\ Len(call.questions) = 3
    /\ Len(ret.value) = 2
    /\ ret.value[1].question = "F3"
    /\ ret.value[2].question = "F2"

(* C25: the stage 'results' is entered only from the stage 'quiz' and only *)
(* when the cursor has reached the number of questions; so whenever the    *)
(* stage is 'results' there are as many answer records as questions.       *)
C25_ResultsComplete ==
    [][/\ (current_stage # "results" /\ current_stage' = "results")
            => /\ current_stage = "quiz"
               /\ current_question_idx = Len(questions)
       /\ current_stage' = "results"
            => Len(user_answers') = Len(questions')]_vars

\* the step of a script run that appends an answer record
Appends == Len(user_answers') = Len(user_answers) + 1

(* C26, as stated: tier changes agree with the outcome of the submission   *)
(* that caused them: a submission evaluated correct never lowers the tier, *)
(* and a submission evaluated incorrect never raises it.                   *)
C26_TierAgreesWithOutcome ==
    [][Appends
        => LET last == user_answers'[Len(user_answers')]
           IN  /\ last.is_correct
                    => TierRank(current_difficulty') >= TierRank(current_difficulty)
               /\ ~last.is_correct
                    => TierRank(current_difficulty') <= TierRank(current_difficulty)]_vars

(* C26, amended: a submission evaluated incorrect never raises the tier; a *)
(* submission evaluated correct never lowers it on submissions 1 and 2,    *)
(* and from the 3rd on lowers it only when the two records before it are   *)
(* both incorrect, and then by one tier.                                   *)
C26_TierAgreesOutsideWindow ==
    [][Appends
        => LET n == Len(user_answers')
               last == user_answers'[n]
           IN  /\ ~last.is_correct
                    => TierRank(current_difficulty') <= TierRank(current_difficulty)
               /\ (last.is_correct
                      /\ TierRank(current_difficulty') < TierRank(current_difficulty))
                    => /\ n >= 3
                       /\ ~user_answers'[n - 1].is_correct
                       /\ ~user_answers'[n - 2].is_correct
                       /\ TierRank(current_difficulty')
                             = TierRank(current_difficulty) - 1]_vars

\* correct, correct, incorrect, incorrect, correct: the fifth lowers the tier
C26_Witness ==
    /\ pc = "feedback"
    /\ Len(user_answers) = 5
    /\ user_answers[5].is_correct
    /\ ~user_answers[4].is_correct
    /\ ~user_answers[3].is_correct
    /\ user_answers[2].is_correct
    /\ user_answers[1].is_correct
    /\ current_difficulty = "easy"

\* a str made of blanks only, the empty str included
Blank(x) == x # NoneValue /\ \A i \in 1..Len(x) : x[i] = " "

(* C27: an answer that is empty after normalization is never a match: for  *)
(* fill_blank and short_answer check_answer returns false when the user's  *)
(* answer consists of whitespace only and the expected answer is not       *)
(* empty, and likewise when the expected answer is whitespace only.        *)
C27_BlankNeverMatches ==
    (/\ CheckReturned
     /\ ret.question_type \in {"fill_blank", "short_answer"}
     /\ call.user_answer # NoneValue
     /\ call.correct_answer # NoneValue
     /\ \/ Blank(call.user_answer) /\ call.correct_answer # <<>>
        \/ Blank(call.correct_answer) /\ call.user_answer # <<>>)
        => ret.value = FALSE

(* C28: the session cannot get stuck before completion: on every quiz page *)
(* with a question left, whatever the 'type' of the question record, a     *)
(* submission of an answer to that question is enabled.                    *)
C28_SubmitEnabled == Presenting => ENABLED SubmitRecord

----------------------------------------------------------------------------
(* Properties of the store *)

\* the user an entry of the history belongs to
Owner(d) == IF "user_id" \in DOMAIN d THEN d.user_id ELSE "default"

\* the entries a file holds: none when it is absent or no JSON text
Entries(file) == IF file.status = "json" THEN file.data ELSE <<>>

(* C29: clear_quiz_history(u) on the JSON store removes exactly the        *)
(* entries of user u (an entry without a user_id belongs to 'default') and *)
(* leaves every other entry present, unchanged and in the original order;  *)
(* afterwards get_quiz_history(u) is empty and get_quiz_history(v) for     *)
(* every other user v is what it was.                                      *)
C29_ClearFrame ==
    [][ret'.status = "returned" /\ ret'.op = "clear_quiz_history" /\ ret' # ret
        => LET u == ret'.user_id
               kept == {i \in 1..Len(Entries(history_file)) :
                           Owner(Entries(history_file)[i]) # u}
           IN  /\ history_file'.status = "json"
               /\ Selects(history_file'.data, Entries(history_file), kept)
               /\ GetQuizHistory(history_file', u, DefaultLimit) = <<>>
               /\ \A v \in Users \ {u} :
                     GetQuizHistory(history_file', v, DefaultLimit)
                        = GetQuizHistory(history_file, v, DefaultLimit)]_vars

\* 'default' cleared: its entry without a user_id is gone, those of u1 are kept
C29_Witness ==
    /\ ret.status = "returned"
    /\ ret.op = "clear_quiz_history"
    /\ ret.user_id = "default"
    /\ history_file = SaveJson(<< [user_id |-> "u1", accuracy |-> 100],
                                  [user_id |-> "u1", accuracy |-> 50] >>)

\* the call of save_quiz_attempt by session s has returned True
Saved(s) == db[s].pc = "returned" /\ db[s].value

(* C30: saved attempts are durable under concurrent use of the JSON store: *)
(* when two sessions have run save_quiz_attempt in any interleaving and    *)
(* both returned True, the history holds the entry of each of them and     *)
(* every entry that was in the file when either of them loaded it.         *)
C30_BothSavesKept ==
    (\A s \in Sessions : Saved(s))
        => \A s \in Sessions :
              /\ \E i \in 1..Len(Entries(history_file)) :
                    Entries(history_file)[i] = db[s].entry
              /\ \A j \in 1..Len(db[s].data) :
                    \E i \in 1..Len(Entries(history_file)) :
                       Entries(history_file)[i] = db[s].data[j]

====
